---- MODULE Spec2Model ----
(***************************************************************************)
(* Model of node/src/types/chainspec/activation_point.rs (ActivationPoint: *)
(* upgrade decision, accessors, bytesrepr encoding and decoding) and of    *)
(* node/src/components/small_network/gossiped_address.rs (GossipedAddress  *)
(* as a GossipItem).                                                       *)
(*                                                                         *)
(* A u64 is kept at its full width: it is the sequence of its eight        *)
(* base-256 digits, most significant first.  EraId and Timestamp are       *)
(* newtypes over u64 and are represented by that u64.                      *)
(***************************************************************************)
EXTENDS Integers, Sequences, FiniteSets, TLC

VARIABLES
    ap,           \* the configured ActivationPoint (immutable once constructed)
    era,          \* the era being deactivated at the current era transition
    transitions,  \* era transitions performed so far
    decision,     \* Option<bool>: the last result of should_upgrade
    op,           \* the last accessor / codec call made on ap
    buf,          \* the byte buffer handed to the call named in op, if it takes one
    out,          \* the value returned by the call named in op
    peers,        \* gossip: the peers this node is connected to
    item,         \* gossip: Option<GossipedAddress> being gossiped
    announced,    \* gossip: Option<Id>, the identifier sent on the wire
    gossiped,     \* gossip: peers the identifier has been sent to
    holders,      \* gossip: peers that hold the complete item
    fetches       \* gossip: peers that issued a fetch of the item body

vars == <<ap, era, transitions, decision, op, buf, out,
          peers, item, announced, gossiped, holders, fetches>>

apVars == <<ap, era, transitions, decision, op, buf, out>>
gossipVars == <<peers, item, announced, gossiped, holders, fetches>>

----------------------------------------------------------------------------
(* Bounds of the model. *)

MaxTransitions == 3
MaxTail == 1
MaxPeers == 3

----------------------------------------------------------------------------
(* Option and Result. *)

None == <<>>
Some(x) == <<x>>

Ok(v) == [ok |-> TRUE, value |-> v]
Err(e) == [ok |-> FALSE, error |-> e]

\* bytesrepr::Error::Formatting
Formatting == "Formatting"

----------------------------------------------------------------------------
(* u8 and u64. *)

U8_MAX == 255
U8_SERIALIZED_LENGTH == 1
U64_SERIALIZED_LENGTH == 8

RECURSIVE U64Digits(_, _)
U64Digits(n, k) ==
    IF k = 0 THEN <<>>
    ELSE Append(U64Digits(n \div (U8_MAX + 1), k - 1), n % (U8_MAX + 1))

\* the u64 with value n
U64(n) == U64Digits(n, U64_SERIALIZED_LENGTH)

U64_MAX == [i \in 1..U64_SERIALIZED_LENGTH |-> U8_MAX]

\* a < b on u64
U64Less(a, b) ==
    \E i \in 1..U64_SERIALIZED_LENGTH :
        /\ a[i] < b[i]
        /\ \A j \in 1..(i - 1) : a[j] = b[j]

\* a >= b on u64
U64Geq(a, b) == ~U64Less(a, b)

\* a + 1 on u64 for a # U64_MAX: the carry runs through the trailing 255 digits
U64Inc(a) ==
    LET k == CHOOSE i \in 1..U64_SERIALIZED_LENGTH :
                 /\ a[i] < U8_MAX
                 /\ \A j \in (i + 1)..U64_SERIALIZED_LENGTH : a[j] = U8_MAX
    IN  [i \in 1..U64_SERIALIZED_LENGTH |->
            IF i < k THEN a[i] ELSE IF i = k THEN a[i] + 1 ELSE 0]

\* u64::saturating_add(1)
U64SaturatingInc(a) == IF a = U64_MAX THEN U64_MAX ELSE U64Inc(a)

RECURSIVE Reverse(_)
Reverse(s) == IF s = <<>> THEN <<>> ELSE Append(Reverse(Tail(s)), Head(s))

\* u8::from_bytes: one byte and the rest, or an error on an empty buffer
u8_from_bytes(bytes) ==
    IF Len(bytes) < U8_SERIALIZED_LENGTH THEN Err(Formatting)
    ELSE [ok |-> TRUE, value |-> Head(bytes), remainder |-> Tail(bytes)]

\* u64::to_bytes: fixed width, little-endian
u64_to_bytes(x) == Reverse(x)

\* u64::from_bytes: eight bytes little-endian and the rest, or an error
u64_from_bytes(bytes) ==
    IF Len(bytes) < U64_SERIALIZED_LENGTH THEN Err(Formatting)
    ELSE [ok |-> TRUE,
          value |-> Reverse(SubSeq(bytes, 1, U64_SERIALIZED_LENGTH)),
          remainder |-> SubSeq(bytes, U64_SERIALIZED_LENGTH + 1, Len(bytes))]

----------------------------------------------------------------------------
(* EraId and Timestamp. *)

EraId_from(n) == U64(n)

EraId_successor(e) == U64SaturatingInc(e)

EraId_to_bytes(e) == u64_to_bytes(e)
EraId_serialized_length(e) == U64_SERIALIZED_LENGTH
EraId_from_bytes(bytes) == u64_from_bytes(bytes)

Timestamp_to_bytes(t) == u64_to_bytes(t)
Timestamp_serialized_length(t) == U64_SERIALIZED_LENGTH
Timestamp_from_bytes(bytes) == u64_from_bytes(bytes)

----------------------------------------------------------------------------
(* ActivationPointTag. *)

Tag_EraId == 0
Tag_Genesis == 1

\* FromPrimitive::from_u8 (derived): Option<ActivationPointTag>
Tag_from_u8(value) ==
    IF value = Tag_EraId THEN Some("EraId")
    ELSE IF value = Tag_Genesis THEN Some("Genesis")
    ELSE None

\* ToPrimitive::to_u8 (derived): Option<u8>
Tag_to_u8(tag) == IF tag = "EraId" THEN Some(Tag_EraId) ELSE Some(Tag_Genesis)

Tag_try_from_Unchecked(value) ==
    IF value = Tag_Genesis THEN Ok("Genesis") ELSE Ok("EraId")

\* TryFrom<u8> for ActivationPointTag
Tag_try_from(value) ==
    IF Tag_from_u8(value) = None THEN Err(Formatting)
    ELSE Ok(Tag_from_u8(value)[1])

----------------------------------------------------------------------------
(* ActivationPoint. *)

ActivationPoint_EraId(era_id) == [variant |-> "EraId", payload |-> era_id]
ActivationPoint_Genesis(timestamp) == [variant |-> "Genesis", payload |-> timestamp]

tag(self) == IF self.variant = "EraId" THEN "EraId" ELSE "Genesis"

tag_byte_Swapped(self) ==
    IF self.variant = "EraId" THEN Tag_Genesis ELSE Tag_EraId

tag_byte(self) == Tag_to_u8(tag(self))[1]

should_upgrade_StrictlyAfter(self, era_being_deactivated) ==
    IF self.variant = "EraId"
    THEN U64Less(self.payload, EraId_successor(era_being_deactivated))
    ELSE FALSE

should_upgrade_ExactBoundary(self, era_being_deactivated) ==
    IF self.variant = "EraId"
    THEN EraId_successor(era_being_deactivated) = self.payload
    ELSE FALSE

should_upgrade_GenesisAsEraZero(self, era_being_deactivated) ==
    U64Geq(EraId_successor(era_being_deactivated),
           IF self.variant = "EraId" THEN self.payload ELSE EraId_from(0))

should_upgrade(self, era_being_deactivated) ==
    IF self.variant = "EraId"
    THEN U64Geq(EraId_successor(era_being_deactivated), self.payload)
    ELSE FALSE

era_id_Unconditional(self) == self.payload

era_id(self) ==
    IF self.variant = "EraId" THEN self.payload ELSE EraId_from(0)

genesis_timestamp(self) ==
    IF self.variant = "EraId" THEN None ELSE Some(self.payload)

is_genesis(self) == self.variant # "EraId"

to_bytes(self) ==
    IF self.variant = "EraId"
    THEN Ok(<<tag_byte(self)>> \o EraId_to_bytes(self.payload))
    ELSE Ok(<<tag_byte(self)>> \o Timestamp_to_bytes(self.payload))

serialized_length_PayloadOnly(self) ==
    IF self.variant = "EraId"
    THEN EraId_serialized_length(self.payload)
    ELSE Timestamp_serialized_length(self.payload)

serialized_length(self) ==
    U8_SERIALIZED_LENGTH
        + (IF self.variant = "EraId"
           THEN EraId_serialized_length(self.payload)
           ELSE Timestamp_serialized_length(self.payload))

\* the result of from_bytes once the tag is known
from_bytes_payload(tagged, remainder) ==
    IF tagged = "EraId"
    THEN IF EraId_from_bytes(remainder).ok
         THEN [ok |-> TRUE,
               value |-> ActivationPoint_EraId(EraId_from_bytes(remainder).value),
               remainder |-> EraId_from_bytes(remainder).remainder]
         ELSE Err(EraId_from_bytes(remainder).error)
    ELSE IF Timestamp_from_bytes(remainder).ok
         THEN [ok |-> TRUE,
               value |-> ActivationPoint_Genesis(Timestamp_from_bytes(remainder).value),
               remainder |-> Timestamp_from_bytes(remainder).remainder]
         ELSE Err(Timestamp_from_bytes(remainder).error)

\* a decoder that pads a short buffer with zeroes instead of failing
from_bytes_ZeroPadded(bytes) ==
    LET padded == bytes \o [i \in 1..(U8_SERIALIZED_LENGTH + U64_SERIALIZED_LENGTH) |-> 0]
    IN  IF Tag_try_from(Head(padded)).ok
        THEN [ok |-> TRUE,
              value |-> from_bytes_payload(Tag_try_from(Head(padded)).value,
                                           Tail(padded)).value,
              remainder |-> <<>>]
        ELSE Err(Tag_try_from(Head(padded)).error)

\* a decoder that returns the whole rest of the buffer as the remainder
from_bytes_KeepsPayload(bytes) ==
    IF ~u8_from_bytes(bytes).ok THEN Err(u8_from_bytes(bytes).error)
    ELSE IF ~Tag_try_from(u8_from_bytes(bytes).value).ok
         THEN Err(Tag_try_from(u8_from_bytes(bytes).value).error)
         ELSE IF from_bytes_payload(Tag_try_from(u8_from_bytes(bytes).value).value,
                                    u8_from_bytes(bytes).remainder).ok
              THEN [from_bytes_payload(Tag_try_from(u8_from_bytes(bytes).value).value,
                                       u8_from_bytes(bytes).remainder)
                       EXCEPT !.remainder = u8_from_bytes(bytes).remainder]
              ELSE from_bytes_payload(Tag_try_from(u8_from_bytes(bytes).value).value,
                                      u8_from_bytes(bytes).remainder)

from_bytes(bytes) ==
    IF ~u8_from_bytes(bytes).ok THEN Err(u8_from_bytes(bytes).error)
    ELSE IF ~Tag_try_from(u8_from_bytes(bytes).value).ok
         THEN Err(Tag_try_from(u8_from_bytes(bytes).value).error)
         ELSE from_bytes_payload(Tag_try_from(u8_from_bytes(bytes).value).value,
                                 u8_from_bytes(bytes).remainder)

----------------------------------------------------------------------------
(* GossipedAddress as a GossipItem. *)

SocketAddr(ip, port) == [ip |-> ip, port |-> port]

\* the tuple struct GossipedAddress(SocketAddr)
GossipedAddress_new(address) == <<address>>

ID_IS_COMPLETE_ITEM_Unset == FALSE

ID_IS_COMPLETE_ITEM == TRUE

GossipedAddress_id(self) == self

GossipedAddress_target(self) == "All"

\* the peers a gossip target selects among the connected ones
TargetPeers(target, connected) ==
    IF target = "All" THEN {connected} ELSE SUBSET connected

----------------------------------------------------------------------------
(* Inputs. *)

U64_NEAR_MAX == [U64_MAX EXCEPT ![U64_SERIALIZED_LENGTH] = U8_MAX - 2]

\* activation eras a chainspec may configure
TargetEras == {EraId_from(0), EraId_from(1), EraId_from(10), EraId_from(256), U64_MAX}

\* eras at which a node may start following the chain
StartEras == {EraId_from(0), EraId_from(8), EraId_from(9), EraId_from(15),
              EraId_from(255), U64_NEAR_MAX}

Timestamps == {U64(0), U64(1614556800), U64_MAX}

ActivationPoints ==
    {ActivationPoint_EraId(e) : e \in TargetEras}
        \cup {ActivationPoint_Genesis(t) : t \in Timestamps}

RECURSIVE SeqsUpTo(_, _)
SeqsUpTo(S, n) ==
    IF n = 0 THEN {<<>>}
    ELSE SeqsUpTo(S, n - 1)
            \cup {Append(s, x) : s \in SeqsUpTo(S, n - 1), x \in S}

\* bytes of a following field in a shared buffer
Tails == SeqsUpTo({0, U8_MAX}, MaxTail)

\* first bytes a received buffer may carry
TagBytes == {Tag_EraId, Tag_Genesis, 2, U8_MAX}

Prefixes(s) == {SubSeq(s, 1, k) : k \in 0..Len(s)}

\* buffers a decoder may be handed when v was encoded: the encoding followed by
\* other fields, cut short, or with its first byte replaced
Wire(v) ==
    LET payload == Tail(to_bytes(v).value)
    IN  {<<>>} \cup {<<b>> \o body : b \in TagBytes,
                                     body \in Prefixes(payload)
                                                \cup {payload \o t : t \in Tails}}

Addresses ==
    {SocketAddr(<<127, 0, 0, 1>>, 34553), SocketAddr(<<10, 0, 0, 7>>, 34553),
     SocketAddr(<<10, 0, 0, 7>>, 0), SocketAddr(<<0, 0, 0, 0>>, 65535)}

Peers == 1..MaxPeers

----------------------------------------------------------------------------
(* The activation point: construction and the calls made on it. *)

Init ==
    /\ ap \in ActivationPoints
    /\ era \in StartEras
    /\ transitions = 0
    /\ decision = None
    /\ op = "new"
    /\ buf = <<>>
    /\ out = Ok(ap)
    /\ peers = {}
    /\ item = None
    /\ announced = None
    /\ gossiped = {}
    /\ holders = {}
    /\ fetches = {}

\* should_upgrade(&era) at the current era transition
ShouldUpgrade ==
    /\ decision' = Some(should_upgrade(ap, era))
    /\ UNCHANGED <<ap, era, transitions, op, buf, out, gossipVars>>

\* the chain moves on: the next era is the one being deactivated, and the
\* upgrade check is made for it
EraTransition ==
    /\ transitions < MaxTransitions
    /\ era' = EraId_successor(era)
    /\ transitions' = transitions + 1
    /\ decision' = Some(should_upgrade(ap, era'))
    /\ UNCHANGED <<ap, op, buf, out, gossipVars>>

Call(name, argument, result) ==
    /\ op' = name
    /\ buf' = argument
    /\ out' = result
    /\ UNCHANGED <<ap, era, transitions, decision, gossipVars>>

EraIdCall == Call("era_id", <<>>, era_id(ap))

GenesisTimestampCall == Call("genesis_timestamp", <<>>, genesis_timestamp(ap))

IsGenesisCall == Call("is_genesis", <<>>, is_genesis(ap))

ToBytes == Call("to_bytes", <<>>, to_bytes(ap))

SerializedLength == Call("serialized_length", <<>>, serialized_length(ap))

FromBytes == \E bytes \in Wire(ap) : Call("from_bytes", bytes, from_bytes(bytes))

Next ==
    \/ ShouldUpgrade
    \/ EraTransition
    \/ EraIdCall
    \/ GenesisTimestampCall
    \/ IsGenesisCall
    \/ ToBytes
    \/ SerializedLength
    \/ FromBytes

Spec == Init /\ [][Next]_vars

----------------------------------------------------------------------------
(* A gossip round for a GossipedAddress. *)

InitGossip ==
    /\ ap = ActivationPoint_EraId(EraId_from(0))
    /\ era = EraId_from(0)
    /\ transitions = 0
    /\ decision = None
    /\ op = "new"
    /\ buf = <<>>
    /\ out = Ok(ap)
    /\ peers \in SUBSET Peers
    /\ item = None
    /\ announced = None
    /\ gossiped = {}
    /\ holders = {}
    /\ fetches = {}

\* the node decides to advertise its listening address
Advertise ==
    /\ item = None
    /\ \E a \in Addresses : item' = Some(GossipedAddress_new(a))
    /\ UNCHANGED <<apVars, peers, announced, gossiped, holders, fetches>>

\* the gossiper announces the item's identifier to the peers its target selects
Gossip ==
    /\ item # None
    /\ announced = None
    /\ announced' = Some(GossipedAddress_id(item[1]))
    /\ gossiped' \in TargetPeers(GossipedAddress_target(item[1]), peers)
    /\ UNCHANGED <<apVars, peers, item, holders, fetches>>

\* a peer receives the identifier: it holds the item at once when the
\* identifier is the complete item, and asks for the item's body otherwise
Receive ==
    \E p \in gossiped \ (holders \cup fetches) :
        /\ IF ID_IS_COMPLETE_ITEM
           THEN holders' = holders \cup {p} /\ UNCHANGED fetches
           ELSE fetches' = fetches \cup {p} /\ UNCHANGED holders
        /\ UNCHANGED <<apVars, peers, item, announced, gossiped>>

NextGossip ==
    \/ Advertise
    \/ Gossip
    \/ Receive

SpecGossip == InitGossip /\ [][NextGossip]_vars

----------------------------------------------------------------------------
(* Properties. *)

\* the value of a u64 below 2^24, as an integer
SmallU64(a) == \A i \in 1..(U64_SERIALIZED_LENGTH - 3) : a[i] = 0
ValueOf(a) ==
    (a[U64_SERIALIZED_LENGTH - 2] * (U8_MAX + 1) + a[U64_SERIALIZED_LENGTH - 1])
        * (U8_MAX + 1) + a[U64_SERIALIZED_LENGTH]

\* the encoding of the configured activation point
Encoded == to_bytes(ap).value

\* C1: for AtEra(target_era), should_upgrade(era_being_deactivated) is true iff
\* successor(era_being_deactivated) >= target_era; with target 10 it is true
\* for era 9, false for era 8 and true for era 15.
C1_ShouldUpgradeIffSuccessorReached ==
    (ap.variant = "EraId" /\ decision # None) =>
        /\ decision[1] = U64Geq(EraId_successor(era), ap.payload)
        /\ (SmallU64(era) /\ SmallU64(ap.payload)) =>
               decision[1] = (ValueOf(era) + 1 >= ValueOf(ap.payload))
        /\ (ap.payload = EraId_from(10) /\ era = EraId_from(9)) => decision[1] = TRUE
        /\ (ap.payload = EraId_from(10) /\ era = EraId_from(8)) => decision[1] = FALSE
        /\ (ap.payload = EraId_from(10) /\ era = EraId_from(15)) => decision[1] = TRUE

C1_Witness ==
    /\ ap = ActivationPoint_EraId(EraId_from(10))
    /\ era = EraId_from(9)
    /\ decision = Some(TRUE)

\* C2: for AtGenesis(t), should_upgrade returns false for every era being
\* deactivated, era 0 included.
C2_GenesisNeverUpgrades ==
    (ap.variant = "Genesis" /\ decision # None) => decision[1] = FALSE

C2_Witness ==
    /\ ap.variant = "Genesis"
    /\ era = EraId_from(0)
    /\ decision = Some(FALSE)

C5_UnknownDiscriminantRejected ==
    (op = "from_bytes" /\ buf # <<>> /\ Head(buf) \notin {0, 1}) =>
        out = Err(Formatting)

C5_Witness ==
    /\ op = "from_bytes"
    /\ Len(buf) = Len(Encoded)
    /\ Head(buf) = U8_MAX
    /\ ~out.ok

\* C6: decoding a strict prefix of the encoding of an activation point (the
\* empty buffer and the lone discriminant byte included) fails with the
\* format error and returns no value.
C6_TruncationRejected ==
    (/\ op = "from_bytes"
     /\ Len(buf) < Len(Encoded)
     /\ buf = SubSeq(Encoded, 1, Len(buf))) =>
        out = Err(Formatting)

C6_Witness ==
    /\ op = "from_bytes"
    /\ buf = <<Head(Encoded)>>
    /\ ~out.ok

\* C7: serialized_length is the length of the encoding, and is one more than
\* the serialized length of the payload of the populated variant.
C7_LengthAccuracy ==
    (op = "serialized_length") =>
        /\ out = Len(Encoded)
        /\ ap.variant = "EraId" => out = 1 + EraId_serialized_length(ap.payload)
        /\ ap.variant = "Genesis" => out = 1 + Timestamp_serialized_length(ap.payload)

C7_Witness ==
    /\ op = "serialized_length"
    /\ ap.variant = "EraId"
    /\ out = Len(Encoded)

\* C8: era_id() is the target era for AtEra and era 0 for AtGenesis, and
\* is_genesis() is true exactly for AtGenesis; AtGenesis(t) and AtEra(0) agree
\* on era_id() and differ on is_genesis().
C8_SentinelSafety ==
    /\ (op = "era_id" /\ ap.variant = "EraId") => out = ap.payload
    /\ (op = "era_id" /\ ap.variant = "Genesis") => out = EraId_from(0)
    /\ (op = "is_genesis") => out = (ap.variant = "Genesis")
    /\ \A t \in Timestamps :
           /\ era_id(ActivationPoint_Genesis(t))
                  = era_id(ActivationPoint_EraId(EraId_from(0)))
           /\ is_genesis(ActivationPoint_Genesis(t))
           /\ ~is_genesis(ActivationPoint_EraId(EraId_from(0)))

C8_Witness ==
    /\ op = "era_id"
    /\ ap.variant = "Genesis"
    /\ ap.payload # U64(0)
    /\ out = EraId_from(0)

\* C9: the identifier of a GossipedAddress is the GossipedAddress itself and
\* ID_IS_COMPLETE_ITEM is true, so no peer ever issues a fetch of the item
\* body; the identifier is sent to all connected peers.
C9_GossipedAddressIdentity ==
    /\ ID_IS_COMPLETE_ITEM
    /\ fetches = {}
    /\ announced # None =>
           /\ announced[1] = item[1]
           /\ gossiped = peers
    /\ \A a \in Addresses :
           /\ GossipedAddress_id(GossipedAddress_new(a)) = GossipedAddress_new(a)
           /\ GossipedAddress_target(GossipedAddress_new(a)) = "All"

C9_Witness ==
    /\ announced # None
    /\ Cardinality(peers) > 1
    /\ holders = peers
    /\ fetches = {}

====
